---- MODULE Spec2Model ----
(***************************************************************************)
(* SOMweb garage-door cover platform                                       *)
(* (homeassistant/components/somweb/cover.py).                             *)
(*                                                                         *)
(* The platform is a set of coroutines running on one event loop: a        *)
(* coroutine runs without interruption from one `await` of a client call   *)
(* to the next.  Each action below is one such stretch: a client call      *)
(* returns (its outcome is the action's input) and the coroutine runs up   *)
(* to its next await, or to its end.  The somweb client library and the    *)
(* host framework are outside the repository: their answers are inputs     *)
(* drawn from small sets.                                                  *)
(***************************************************************************)
EXTENDS Integers, Sequences, FiniteSets, TLC

\* ---------------------------------------------------------------- bounds
\* Doors the device may report at setup (0..MaxDoors).
MaxDoors == 2
\* Calls of the host (poll, open, close) that may be in flight at once.
MaxTasks == 2
\* Distinct non-empty tokens the device hands out.
MaxToken == 2
\* Cap of the per-update call counters.
MaxCount == 3

\* -------------------------------------------------------------- constants
\* Python's None as the value of _TOKEN.
None == -1

Doors == 1..MaxDoors
Tasks == 1..MaxTasks

\* A token string is modelled by a number: 0 is the empty string "", k > 0 is
\* the k-th non-empty token.
TokenStrings == 0..MaxToken

\* len(token)
TokenLen(token) == IF token = 0 THEN 0 ELSE 1

\* somweb.DoorStatusType
DoorStatusType == {"Open", "Closed", "Unknown"}

\* What `await client.get_door_status(id)` may do: return a status, or raise.
StatusOutcomes == DoorStatusType \cup {"raised"}

\* What `await client.authenticate()` may do: raise, report failure, or report
\* success with a token (possibly the empty string).
AuthOutcomes ==
    {[raised |-> TRUE, success |-> FALSE, token |-> 0],
     [raised |-> FALSE, success |-> FALSE, token |-> 0]}
    \cup {[raised |-> FALSE, success |-> TRUE, token |-> k] : k \in TokenStrings}

\* What `await client.open_door(..)` / `close_door(..)` may do.
CommandOutcomes == {"true", "false", "raised"}

\* What `await client.wait_for_door_state(..)` may do.
WaitOutcomes == {"returned", "raised"}

VARIABLES
    setup_pc,       \* async_setup_platform: "is_alive", "authenticate", "returned"
    alive_result,   \* what `await client.is_alive()` gave in setup: "none", "False", "True"
    setup_result,   \* what async_setup_platform returned: "none", "False", "True", "raised"
    auth_success,   \* auth_result.success in setup: "none", "raised", "False", "True"
    added,          \* async_add_entities has been called
    entities,       \* the doors whose SomWebDoor was handed to async_add_entities
    _TOKEN,         \* the module-level token
    _state,         \* SomWebDoor._state, per door ("None" before the first read)
    _is_opening,    \* SomWebDoor._is_opening, per door
    _is_closing,    \* SomWebDoor._is_closing, per door
    _available,     \* SomWebDoor._available, per door
    pc,             \* per call: the await it is suspended at
    kind,           \* per call: "update" (poll), "open", "close"
    door,           \* per call: the door it is a method of
    sent,           \* per call: the token passed to open_door / close_door
    token_before,   \* per call: _TOKEN when __async_re_connect was entered
    reads,          \* per call: client.get_door_status calls of the running async_update
    auths,          \* per call: client.authenticate calls of the running async_update
    log             \* per call: flag writes, refreshes and state publications, in order

vars == <<setup_pc, alive_result, setup_result, auth_success, added, entities, _TOKEN,
          _state, _is_opening, _is_closing, _available,
          pc, kind, door, sent, token_before, reads, auths, log>>

setup_vars == <<setup_pc, alive_result, setup_result, auth_success, added, entities>>
door_vars == <<_state, _is_opening, _is_closing, _available>>
task_vars == <<pc, kind, door, sent, token_before, reads, auths, log>>

Min(a, b) == IF a < b THEN a ELSE b

\* ------------------------------------------------------------------ Init
\* async_setup_platform has been called and awaits client.is_alive(); every
\* door field holds what SomWebDoor.__init__ gives it.
Init ==
    /\ setup_pc = "is_alive"
    /\ alive_result = "none"
    /\ setup_result = "none"
    /\ auth_success = "none"
    /\ added = FALSE
    /\ entities = {}
    /\ _TOKEN = None
    /\ _state = [d \in Doors |-> "None"]
    /\ _is_opening = [d \in Doors |-> FALSE]
    /\ _is_closing = [d \in Doors |-> FALSE]
    /\ _available = [d \in Doors |-> TRUE]
    /\ pc = [t \in Tasks |-> "idle"]
    /\ kind = [t \in Tasks |-> "none"]
    /\ door = [t \in Tasks |-> 0]
    /\ sent = [t \in Tasks |-> None]
    /\ token_before = [t \in Tasks |-> None]
    /\ reads = [t \in Tasks |-> 0]
    /\ auths = [t \in Tasks |-> 0]
    /\ log = [t \in Tasks |-> <<>>]

\* ----------------------------------------------------------------- setup
\* `await client.is_alive()` returns `alive`.
SetupIsAlive(alive) ==
    /\ setup_pc = "is_alive"
    /\ alive_result' = IF alive THEN "True" ELSE "False"
    /\ IF ~alive
         THEN /\ setup_pc' = "returned"
              /\ setup_result' = "False"
         ELSE /\ setup_pc' = "authenticate"
              /\ setup_result' = setup_result
    /\ UNCHANGED <<auth_success, added, entities, _TOKEN, door_vars, task_vars>>

\* A variant of auth_failed that never sees a failure.
auth_failed_never(res) == FALSE

\* `if not auth_result.success:` of async_setup_platform.
auth_failed(res) == ~res.success

\* A variant of SetupAuthenticate that does not store the token.
SetupAuthenticateNoToken(res, n) ==
    /\ setup_pc = "authenticate"
    /\ setup_pc' = "returned"
    /\ auth_success' = IF res.raised THEN "raised"
                       ELSE IF res.success THEN "True" ELSE "False"
    /\ IF res.raised
         THEN /\ setup_result' = "raised"
              /\ UNCHANGED <<added, entities, _TOKEN>>
         ELSE IF auth_failed(res)
         THEN /\ setup_result' = "False"
              /\ UNCHANGED <<added, entities, _TOKEN>>
         ELSE /\ _TOKEN' = _TOKEN
              /\ entities' = 1..n
              /\ added' = TRUE
              /\ setup_result' = "True"
    /\ UNCHANGED <<alive_result, door_vars, task_vars>>

\* A variant of SetupAuthenticate that returns False when the page lists no door.
SetupAuthenticateNoDoors(res, n) ==
    /\ setup_pc = "authenticate"
    /\ setup_pc' = "returned"
    /\ auth_success' = IF res.raised THEN "raised"
                       ELSE IF res.success THEN "True" ELSE "False"
    /\ IF res.raised
         THEN /\ setup_result' = "raised"
              /\ UNCHANGED <<added, entities, _TOKEN>>
         ELSE IF auth_failed(res)
         THEN /\ setup_result' = "False"
              /\ UNCHANGED <<added, entities, _TOKEN>>
         ELSE IF n = 0
         THEN /\ setup_result' = "False"
              /\ _TOKEN' = res.token
              /\ UNCHANGED <<added, entities>>
         ELSE /\ _TOKEN' = res.token
              /\ entities' = 1..n
              /\ added' = TRUE
              /\ setup_result' = "True"
    /\ UNCHANGED <<alive_result, door_vars, task_vars>>

\* A variant of SetupAuthenticate that takes the plural test `doorCount > 1` for
\* a guard of the registration.
SetupAuthenticatePlural(res, n) ==
    /\ setup_pc = "authenticate"
    /\ setup_pc' = "returned"
    /\ auth_success' = IF res.raised THEN "raised"
                       ELSE IF res.success THEN "True" ELSE "False"
    /\ IF res.raised
         THEN /\ setup_result' = "raised"
              /\ UNCHANGED <<added, entities, _TOKEN>>
         ELSE IF auth_failed(res)
         THEN /\ setup_result' = "False"
              /\ UNCHANGED <<added, entities, _TOKEN>>
         ELSE /\ _TOKEN' = res.token
              /\ entities' = IF n > 1 THEN 1..n ELSE {}
              /\ added' = TRUE
              /\ setup_result' = "True"
    /\ UNCHANGED <<alive_result, door_vars, task_vars>>

\* `await client.authenticate()` returns `res` (or raises, and the exception
\* leaves async_setup_platform); the page lists `n` doors.
SetupAuthenticate(res, n) ==
    /\ setup_pc = "authenticate"
    /\ setup_pc' = "returned"
    /\ auth_success' = IF res.raised THEN "raised"
                       ELSE IF res.success THEN "True" ELSE "False"
    /\ IF res.raised
         THEN /\ setup_result' = "raised"
              /\ UNCHANGED <<added, entities, _TOKEN>>
         ELSE IF auth_failed(res)
         THEN /\ setup_result' = "False"
              /\ UNCHANGED <<added, entities, _TOKEN>>
         ELSE /\ _TOKEN' = res.token
              /\ entities' = 1..n
              /\ added' = TRUE
              /\ setup_result' = "True"
    /\ UNCHANGED <<alive_result, door_vars, task_vars>>

\* ------------------------------------------------------ the host's calls
\* The instant a call returns is a state of its own (pc = "done", or "raised"
\* if an exception were to leave it); nothing else runs between a call's last
\* statement and its return.
Returning == \E t \in Tasks : pc[t] \in {"done", "raised"}

CanStart(t, d) ==
    /\ setup_result = "True"
    /\ d \in entities
    /\ pc[t] = "idle"
    /\ ~Returning

\* The polling driver calls async_update: it runs to the first
\* `await client.get_door_status`.
StartUpdate(t, d) ==
    /\ CanStart(t, d)
    /\ pc' = [pc EXCEPT ![t] = "read1"]
    /\ kind' = [kind EXCEPT ![t] = "update"]
    /\ door' = [door EXCEPT ![t] = d]
    /\ reads' = [reads EXCEPT ![t] = 1]
    /\ auths' = [auths EXCEPT ![t] = 0]
    /\ UNCHANGED <<setup_vars, _TOKEN, door_vars, sent, token_before, log>>

\* async_open_cover up to `await self._client.open_door(_TOKEN, self._id)`.
StartOpen(t, d) ==
    /\ CanStart(t, d)
    /\ _is_opening' = [_is_opening EXCEPT ![d] = TRUE]
    /\ log' = [log EXCEPT ![t] = <<"set", "write">>]
    /\ sent' = [sent EXCEPT ![t] = _TOKEN]
    /\ pc' = [pc EXCEPT ![t] = "command"]
    /\ kind' = [kind EXCEPT ![t] = "open"]
    /\ door' = [door EXCEPT ![t] = d]
    /\ UNCHANGED <<setup_vars, _TOKEN, _state, _is_closing, _available,
                   token_before, reads, auths>>

\* async_close_cover up to `await self._client.close_door(_TOKEN, self._id)`.
StartClose(t, d) ==
    /\ CanStart(t, d)
    /\ _is_closing' = [_is_closing EXCEPT ![d] = TRUE]
    /\ log' = [log EXCEPT ![t] = <<"set", "write">>]
    /\ sent' = [sent EXCEPT ![t] = _TOKEN]
    /\ pc' = [pc EXCEPT ![t] = "command"]
    /\ kind' = [kind EXCEPT ![t] = "close"]
    /\ door' = [door EXCEPT ![t] = d]
    /\ UNCHANGED <<setup_vars, _TOKEN, _state, _is_opening, _available,
                   token_before, reads, auths>>

\* The flag after the `finally:` block, which runs whatever the outcome `r`
\* of the try block (returned, or raised and caught by the bare `except:`).
flag_after_finally(flag, r) == FALSE

\* A variant of Finally that forgets the token when the try block raised.
FinallyDropsToken(t, r) ==
    /\ IF kind[t] = "open"
         THEN /\ _is_opening' = [_is_opening EXCEPT ![door[t]] = FALSE]
              /\ _is_closing' = _is_closing
         ELSE /\ _is_closing' = [_is_closing EXCEPT ![door[t]] = FALSE]
              /\ _is_opening' = _is_opening
    /\ log' = [log EXCEPT ![t] = log[t] \o <<"clear", "async_update">>]
    /\ _TOKEN' = IF r = "raised" THEN None ELSE _TOKEN
    /\ sent' = [sent EXCEPT ![t] = None]
    /\ pc' = [pc EXCEPT ![t] = "read1"]
    /\ reads' = [reads EXCEPT ![t] = 1]
    /\ auths' = [auths EXCEPT ![t] = 0]
    /\ UNCHANGED <<setup_vars, _state, _available, kind, door, token_before>>

\* The `finally:` of async_open_cover / async_close_cover after outcome `r` of
\* the try block: the call's own flag is written and _force_update runs
\* async_update to its first await.
Finally(t, r) ==
    /\ IF kind[t] = "open"
         THEN /\ _is_opening' = [_is_opening EXCEPT ![door[t]] =
                                     flag_after_finally(_is_opening[door[t]], r)]
              /\ _is_closing' = _is_closing
              /\ log' = [log EXCEPT ![t] = log[t] \o
                           <<IF _is_opening'[door[t]] THEN "kept" ELSE "clear",
                             "async_update">>]
         ELSE /\ _is_closing' = [_is_closing EXCEPT ![door[t]] =
                                     flag_after_finally(_is_closing[door[t]], r)]
              /\ _is_opening' = _is_opening
              /\ log' = [log EXCEPT ![t] = log[t] \o
                           <<IF _is_closing'[door[t]] THEN "kept" ELSE "clear",
                             "async_update">>]
    /\ sent' = [sent EXCEPT ![t] = None]
    /\ pc' = [pc EXCEPT ![t] = "read1"]
    /\ reads' = [reads EXCEPT ![t] = 1]
    /\ auths' = [auths EXCEPT ![t] = 0]
    /\ UNCHANGED <<setup_vars, _TOKEN, _state, _available, kind, door, token_before>>

\* A variant of CommandReturn that issues the command again when the device
\* answered false.
CommandReturnRetry(t, r) ==
    /\ pc[t] = "command"
    /\ ~Returning
    /\ IF r = "true"
         THEN /\ pc' = [pc EXCEPT ![t] = "wait"]
              /\ sent' = [sent EXCEPT ![t] = None]
              /\ UNCHANGED <<setup_vars, _TOKEN, door_vars, kind, door,
                             token_before, reads, auths, log>>
         ELSE IF r = "false"
           THEN /\ sent' = [sent EXCEPT ![t] = _TOKEN]
                /\ log' = [log EXCEPT ![t] = <<"set", "write">>]
                /\ UNCHANGED <<setup_vars, _TOKEN, door_vars, pc, kind, door,
                               token_before, reads, auths>>
           ELSE Finally(t, r)

\* `await client.open_door(..)` / `close_door(..)` returns `r` (or raises).
CommandReturn(t, r) ==
    /\ pc[t] = "command"
    /\ ~Returning
    /\ IF r = "true"
         THEN /\ pc' = [pc EXCEPT ![t] = "wait"]
              /\ sent' = [sent EXCEPT ![t] = None]
              /\ UNCHANGED <<setup_vars, _TOKEN, door_vars, kind, door,
                             token_before, reads, auths, log>>
         ELSE Finally(t, r)

\* A variant of WaitReturn without the bare `except:`: an exception of
\* wait_for_door_state leaves the call.
WaitReturnUncaught(t, r) ==
    /\ pc[t] = "wait"
    /\ ~Returning
    /\ IF r = "raised"
         THEN /\ pc' = [pc EXCEPT ![t] = "raised"]
              /\ UNCHANGED <<setup_vars, _TOKEN, door_vars, kind, door, sent,
                             token_before, reads, auths, log>>
         ELSE Finally(t, r)

\* `await client.wait_for_door_state(..)` returns (or raises).
WaitReturn(t, r) ==
    /\ pc[t] = "wait"
    /\ ~Returning
    /\ Finally(t, r)

\* ----------------------------------------------------------- async_update
\* A variant of async_refresh_state without the `except:` handler.
async_refresh_state_unguarded(old, outcome) ==
    IF outcome = "raised"
      THEN [state |-> old, result |-> FALSE, raises |-> TRUE]
      ELSE [state |-> outcome, result |-> outcome # "Unknown", raises |-> FALSE]

\* A variant of async_refresh_state that returns nothing (None, which `or`
\* takes for false) after a status was read.
async_refresh_state_no_result(old, outcome) ==
    IF outcome = "raised"
      THEN [state |-> "Unknown", result |-> FALSE, raises |-> FALSE]
      ELSE [state |-> outcome, result |-> FALSE, raises |-> FALSE]

\* __async_refresh_state once `await client.get_door_status(id)` has returned
\* `outcome`, the door state being `old`: the door state it leaves, the value
\* it returns, and whether an exception leaves it.
async_refresh_state(old, outcome) ==
    IF outcome = "raised"
      THEN [state |-> "Unknown", result |-> FALSE, raises |-> FALSE]
      ELSE [state |-> outcome, result |-> outcome # "Unknown", raises |-> FALSE]

\* `if not self._client.is_alive()`: the call is not awaited, so the operand of
\* `not` is the coroutine object, which is true whatever the device would
\* answer (`alive`).  TRUE: __async_re_connect goes on to authenticate.
is_alive_passes(alive) == ~ (~ TRUE)

\* A variant of async_re_connect without the `len(authResult.token) > 0` test.
async_re_connect_any_token(res) ==
    IF res.raised
      THEN FALSE
      ELSE res.success

\* What __async_re_connect returns once `await client.authenticate()` has
\* returned `res`; it writes _TOKEN exactly when it returns True.
async_re_connect(res) ==
    IF res.raised
      THEN FALSE
      ELSE res.success /\ TokenLen(res.token) > 0

\* A variant of Retries that reconnects after every failed refresh.
RetriesAlways(at) == TRUE

\* `refresh() or (re_connect() and refresh())`: a refresh that returned False
\* is followed by a reconnect only if it was the first one.
Retries(at) == at = "read1"

\* A variant of Available that takes only Open for a known status.
AvailableWhenOpen(state) == state = "Open"

\* self._available = self._state != DoorStatusType.Unknown
Available(state) == state # "Unknown"

\* A variant of force_update_tail that does not publish the state.
force_update_tail_silent(l) == l \o <<"updated">>

\* _force_update after its async_update has returned.
force_update_tail(l) == l \o <<"updated", "write">>

\* A variant of UpdateExit that returns early, before the availability is set,
\* when the status is Unknown.
UpdateExitEarly(t, st) ==
    /\ _state' = st
    /\ _available' = IF st[door[t]] = "Unknown" THEN _available
                     ELSE [_available EXCEPT ![door[t]] = TRUE]
    /\ log' = [log EXCEPT ![t] = IF kind[t] = "update" THEN log[t]
                                 ELSE log[t] \o <<"updated", "write">>]
    /\ pc' = [pc EXCEPT ![t] = "done"]
    /\ token_before' = [token_before EXCEPT ![t] = None]
    /\ UNCHANGED <<setup_vars, _TOKEN, _is_opening, _is_closing,
                   kind, door, sent, reads, auths>>

\* The end of async_update, with `st` the door states after the step: the
\* availability is set, and a command's _force_update publishes the state;
\* then the call returns.
UpdateExit(t, st) ==
    /\ _state' = st
    /\ _available' = [_available EXCEPT ![door[t]] = Available(st[door[t]])]
    /\ log' = [log EXCEPT ![t] = IF kind[t] = "update" THEN log[t]
                                 ELSE force_update_tail(log[t])]
    /\ pc' = [pc EXCEPT ![t] = "done"]
    /\ token_before' = [token_before EXCEPT ![t] = None]
    /\ UNCHANGED <<setup_vars, _TOKEN, _is_opening, _is_closing,
                   kind, door, sent, reads, auths>>

\* `await client.get_door_status(id)` returns `outcome` (or raises); `alive`
\* is what the device would answer to is_alive() at that moment.
StatusReturn(t, outcome, alive) ==
    /\ pc[t] \in {"read1", "read2"}
    /\ ~Returning
    /\ LET r == async_refresh_state(_state[door[t]], outcome)
           st == [_state EXCEPT ![door[t]] = r.state]
       IN  IF r.raises
             THEN /\ _state' = st
                  /\ pc' = [pc EXCEPT ![t] = "raised"]
                  /\ UNCHANGED <<setup_vars, _TOKEN, _is_opening, _is_closing,
                                 _available, kind, door, sent, token_before,
                                 reads, auths, log>>
           ELSE IF r.result \/ ~Retries(pc[t]) \/ ~is_alive_passes(alive)
             THEN UpdateExit(t, st)
             ELSE /\ _state' = st
                  /\ pc' = [pc EXCEPT ![t] = "authenticate"]
                  /\ auths' = [auths EXCEPT ![t] = Min(auths[t] + 1, MaxCount)]
                  /\ token_before' = [token_before EXCEPT ![t] = _TOKEN]
                  /\ UNCHANGED <<setup_vars, _TOKEN, _is_opening, _is_closing,
                                 _available, kind, door, sent, reads, log>>

\* `await self._client.authenticate()` of __async_re_connect returns `res`
\* (or raises).
AuthReturn(t, res) ==
    /\ pc[t] = "authenticate"
    /\ ~Returning
    /\ IF async_re_connect(res)
         THEN /\ _TOKEN' = res.token
              /\ pc' = [pc EXCEPT ![t] = "read2"]
              /\ reads' = [reads EXCEPT ![t] = Min(reads[t] + 1, MaxCount)]
              /\ token_before' = [token_before EXCEPT ![t] = None]
              /\ UNCHANGED <<setup_vars, door_vars, kind, door, sent, auths, log>>
         ELSE UpdateExit(t, _state)

\* The call has returned to the host; its slot is free again.
Return(t) ==
    /\ pc[t] \in {"done", "raised"}
    /\ pc' = [pc EXCEPT ![t] = "idle"]
    /\ kind' = [kind EXCEPT ![t] = "none"]
    /\ door' = [door EXCEPT ![t] = 0]
    /\ sent' = [sent EXCEPT ![t] = None]
    /\ token_before' = [token_before EXCEPT ![t] = None]
    /\ reads' = [reads EXCEPT ![t] = 0]
    /\ auths' = [auths EXCEPT ![t] = 0]
    /\ log' = [log EXCEPT ![t] = <<>>]
    /\ UNCHANGED <<setup_vars, _TOKEN, door_vars>>

\* ------------------------------------------------------------ properties
\* SomWebDoor.current_cover_position: 0, 100 or None.
current_cover_position(state) ==
    IF state = "Closed" THEN 0
    ELSE IF state = "Open" THEN 100
    ELSE None

\* A variant of is_closed without the `self._state == None` test.
is_closed_unread(state) ==
    IF state = "Unknown" THEN "None"
    ELSE IF state = "Closed" THEN "True" ELSE "False"

\* SomWebDoor.is_closed: "None", "True" or "False".
is_closed(state) ==
    IF state = "None" \/ state = "Unknown" THEN "None"
    ELSE IF state = "Closed" THEN "True" ELSE "False"

\* ------------------------------------------------------------------ Next
Next ==
    \/ \E alive \in BOOLEAN : SetupIsAlive(alive)
    \/ \E res \in AuthOutcomes, n \in 0..MaxDoors : SetupAuthenticate(res, n)
    \/ \E t \in Tasks, d \in Doors : StartUpdate(t, d)
    \/ \E t \in Tasks, d \in Doors : StartOpen(t, d)
    \/ \E t \in Tasks, d \in Doors : StartClose(t, d)
    \/ \E t \in Tasks, r \in CommandOutcomes : CommandReturn(t, r)
    \/ \E t \in Tasks, r \in WaitOutcomes : WaitReturn(t, r)
    \/ \E t \in Tasks, o \in StatusOutcomes, alive \in BOOLEAN : StatusReturn(t, o, alive)
    \/ \E t \in Tasks, res \in AuthOutcomes : AuthReturn(t, res)
    \/ \E t \in Tasks : Return(t)

Spec == Init /\ [][Next]_vars

\* The steps of the call in slot t: a client call it awaits returns or raises,
\* or the finished call returns to the host.
TaskStep(t) ==
    \/ \E r \in CommandOutcomes : CommandReturn(t, r)
    \/ \E r \in WaitOutcomes : WaitReturn(t, r)
    \/ \E o \in StatusOutcomes, alive \in BOOLEAN : StatusReturn(t, o, alive)
    \/ \E res \in AuthOutcomes : AuthReturn(t, res)
    \/ Return(t)

\* Every client call that is awaited eventually returns or raises, and the
\* event loop resumes the coroutine that awaits it.  Strong fairness: the step
\* of one call is not enabled in the instant in which another call returns.
FairSpec == Spec /\ \A t \in Tasks : SF_vars(TaskStep(t))

\* ================================================================ claims
Commands == {"open", "close"}

\* An async_update (a poll, or a command's forced update) is running on door d.
UpdateInFlight(d) ==
    \E t \in Tasks : door[t] = d /\ pc[t] \in {"read1", "authenticate", "read2"}

\* C1: every async_update makes at most one client.authenticate call and at
\* most two client.get_door_status calls, the second only after the one
\* reconnect; after the second read it returns.
C1_OneReconnect ==
    \A t \in Tasks :
        /\ auths[t] <= 1
        /\ reads[t] <= 2
        /\ reads[t] <= auths[t] + 1
        /\ pc[t] = "read2" => (reads[t] = 2 /\ auths[t] = 1)

\* C1 witness: an update has returned after a reconnect and a second read
\* that failed too.
C1_Witness ==
    \E t \in Tasks :
        /\ pc[t] = "done"
        /\ auths[t] = 1
        /\ reads[t] = 2
        /\ _state[door[t]] = "Unknown"

\* C2: a reconnect entered while the device is unreachable (is_alive() would
\* answer false) does not call client.authenticate, returns false (the update
\* ends there) and leaves _TOKEN as it is.
C2_NoAuthWhenUnreachable ==
    [][\A t \in Tasks, o \in {"Unknown", "raised"} :
         (pc[t] = "read1" /\ StatusReturn(t, o, FALSE))
             => /\ pc'[t] = "done"
                /\ auths'[t] = 0
                /\ _TOKEN' = _TOKEN]_vars

\* An open or close command on door d has started and not returned.
CommandInFlight(d) ==
    \E t \in Tasks :
        kind[t] \in Commands /\ door[t] = d /\ pc[t] \notin {"idle", "done", "raised"}

\* C3: at the moment an async_open_cover / async_close_cover call
\* returns, is_opening and is_closing of its door are both false.
C3_FlagsClearAtReturn ==
    \A t \in Tasks :
        (pc[t] = "done" /\ kind[t] \in Commands)
            => (~_is_opening[door[t]] /\ ~_is_closing[door[t]])

\* C4: is_opening and is_closing of a door are never both true, and both are
\* false whenever no open/close command on that door is in flight.
C4_FlagsExclusive ==
    \A d \in Doors :
        /\ ~(_is_opening[d] /\ _is_closing[d])
        /\ ~CommandInFlight(d) => (~_is_opening[d] /\ ~_is_closing[d])

\* C5: when the status read that follows a successful reconnect returns Closed
\* (Open), the update ends there with door state Closed (Open) and
\* available = true.
C5_RecoveredAfterReconnect ==
    [][\A t \in Tasks, o \in {"Closed", "Open"}, alive \in BOOLEAN :
         (pc[t] = "read2" /\ StatusReturn(t, o, alive))
             => /\ pc'[t] = "done"
                /\ _state'[door[t]] = o
                /\ _available'[door[t]] = TRUE]_vars

\* C5 witness: an update that reconnected and read the status a second time
\* has returned with state Closed and available = true.
C5_Witness ==
    \E t \in Tasks :
        /\ pc[t] = "done"
        /\ auths[t] = 1
        /\ reads[t] = 2
        /\ _state[door[t]] = "Closed"
        /\ _available[door[t]]

\* C6: when authentication reports failure at setup, async_setup_platform
\* returns False, async_add_entities is not called, no door entity exists and
\* _TOKEN stays None.
C6_SetupAuthFailure ==
    auth_success = "False"
        => /\ setup_result = "False"
           /\ ~added
           /\ entities = {}
           /\ _TOKEN = None

\* C6 witness: setup has returned after an authentication that reported failure.
C6_Witness ==
    setup_pc = "returned" /\ auth_success = "False"

\* C7 as stated: __async_re_connect returns true exactly when authenticate
\* succeeded with a non-empty token, and then _TOKEN is that token; in every
\* other outcome it returns false and _TOKEN is what it was when the reconnect
\* was entered.
C7_TokenAsBeforeCall ==
    [][\A t \in Tasks, res \in AuthOutcomes :
         AuthReturn(t, res)
             => LET returned_true == pc'[t] = "read2"
                IN  /\ returned_true
                        <=> (~res.raised /\ res.success /\ res.token \in 1..MaxToken)
                    /\ returned_true => _TOKEN' = res.token
                    /\ ~returned_true => _TOKEN' = token_before[t]]_vars

\* C7 amended: __async_re_connect returns true exactly when authenticate
\* succeeded with a non-empty token, and then _TOKEN is that token when it
\* returns; in every other outcome it returns false and does not write _TOKEN.
C7_Reconnect ==
    [][\A t \in Tasks, res \in AuthOutcomes :
         AuthReturn(t, res)
             => LET returned_true == pc'[t] = "read2"
                IN  /\ returned_true
                        <=> (~res.raised /\ res.success /\ res.token \in 1..MaxToken)
                    /\ returned_true => _TOKEN' = res.token
                    /\ ~returned_true => (_TOKEN' = _TOKEN /\ pc'[t] = "done")]_vars

\* C7 witness: a reconnect has returned true, the update awaits its second
\* read, and the token held is a non-empty one.
C7_Witness ==
    \E t \in Tasks :
        /\ pc[t] = "read2"
        /\ auths[t] = 1
        /\ _TOKEN \in 1..MaxToken

\* C8: __async_refresh_state never raises; when get_door_status returns a
\* value, that value becomes the door state and the result is
\* (state != Unknown); when the call raises, the door state becomes Unknown and
\* the result is false.  (The result of the first refresh shows in what
\* async_update does next: it returns on true and reconnects on false.)
C8_RefreshNeverRaises ==
    [][\A t \in Tasks, o \in StatusOutcomes, alive \in BOOLEAN :
         StatusReturn(t, o, alive)
             => /\ pc'[t] # "raised"
                /\ _state'[door[t]] = (IF o = "raised" THEN "Unknown" ELSE o)
                /\ pc[t] = "read1"
                     => ((pc'[t] = "done") <=> (o \in {"Open", "Closed"}))]_vars

\* C8 witness: a door whose state has been read is Unknown while its update
\* goes on to reconnect (the read raised or returned Unknown).
C8_Witness ==
    \E t \in Tasks :
        /\ pc[t] = "authenticate"
        /\ _state[door[t]] = "Unknown"

\* C9 as stated: whenever no async_update of a door is in flight,
\* available = (state != Unknown); and an update whose first read fails and
\* whose reconnect fails ends with available = false and state Unknown.
C9_UnavailableAfterFailedReconnect ==
    /\ [](\A d \in Doors : ~UpdateInFlight(d) => _available[d] = (_state[d] # "Unknown"))
    /\ [][\A t \in Tasks, res \in AuthOutcomes :
            (AuthReturn(t, res) /\ pc'[t] = "done")
                => (_available'[door[t]] = FALSE /\ _state'[door[t]] = "Unknown")]_vars

\* C9 amended: whenever no async_update of a door is in flight,
\* available = (state != Unknown); and an update whose first read fails and
\* whose reconnect fails ends without writing the door state again and with
\* available = (state != Unknown) for the state the door has at that moment:
\* false and Unknown if the state is still Unknown (an overlapping update of
\* the same door may have stored Open or Closed since the failed read).
C9_AvailableIffKnown ==
    /\ [](\A d \in Doors : ~UpdateInFlight(d) => _available[d] = (_state[d] # "Unknown"))
    /\ [][\A t \in Tasks, res \in AuthOutcomes :
            (AuthReturn(t, res) /\ pc'[t] = "done")
                => /\ _state'[door[t]] = _state[door[t]]
                   /\ _available'[door[t]] = (_state[door[t]] # "Unknown")]_vars

\* C9 witness: an update has returned after a failed first read and a failed
\* reconnect; the door is Unknown and unavailable.
C9_Witness ==
    \E t \in Tasks :
        /\ pc[t] = "done"
        /\ auths[t] = 1
        /\ reads[t] = 1
        /\ _state[door[t]] = "Unknown"
        /\ ~_available[door[t]]

\* C10: when an open/close call returns, it has, in this order and whatever
\* the command's outcome was: set its flag and published, cleared its flag,
\* run async_update, and published the state.
C10_CleanupOrder ==
    \A t \in Tasks :
        (pc[t] = "done" /\ kind[t] \in Commands)
            => log[t] = <<"set", "write", "clear", "async_update", "updated", "write">>

\* C10 witness: a close call has returned and its flag is false.
C10_Witness ==
    \E t \in Tasks :
        /\ pc[t] = "done"
        /\ kind[t] = "close"
        /\ Len(log[t]) = 6
        /\ ~_is_closing[door[t]]

\* C11: whenever a door entity exists, _TOKEN is not None, and every
\* client.open_door / client.close_door call in flight was given a token that
\* is not None.
C11_TokenNotNull ==
    /\ entities # {} => _TOKEN # None
    /\ \A t \in Tasks : pc[t] = "command" => sent[t] # None

\* C11 witness: an open_door / close_door call is in flight on an existing door.
C11_Witness ==
    \E t \in Tasks : pc[t] = "command" /\ door[t] \in entities /\ sent[t] = _TOKEN

\* C12 as stated: async_setup_platform returns False only when the setup-time
\* authentication reported failure.
C12_AbortOnlyOnAuthFailure ==
    setup_result = "False" => auth_success = "False"

\* C12 amended: async_setup_platform returns False only when client.is_alive()
\* answered false (the device was not found) or the setup-time authentication
\* reported failure.
C12_AbortCauses ==
    setup_result = "False"
        => (alive_result = "False" \/ (alive_result = "True" /\ auth_success = "False"))

\* C12 witness: setup has returned False because the device did not answer;
\* authenticate was never called.
C12_Witness ==
    setup_result = "False" /\ alive_result = "False" /\ auth_success = "none"

\* C13: when the setup-time authentication succeeds, async_setup_platform, in
\* the step in which that one client.authenticate call returns, stores the
\* returned token in _TOKEN, registers exactly the doors of the page, each
\* with is_opening and is_closing false, and returns True; setup calls
\* authenticate once (having returned, it never runs again).
C13_SuccessfulSetup ==
    /\ [][\A res \in AuthOutcomes, n \in 0..MaxDoors :
            (SetupAuthenticate(res, n) /\ ~res.raised /\ res.success)
                => /\ setup_pc = "authenticate" /\ setup_pc' = "returned"
                   /\ _TOKEN' = res.token
                   /\ added'
                   /\ entities' = 1..n
                   /\ Cardinality(entities') = n
                   /\ \A d \in entities' : ~_is_opening'[d] /\ ~_is_closing'[d]
                   /\ setup_result' = "True"]_vars
    /\ [][setup_pc = "returned" => setup_pc' = "returned"]_vars

\* C13 witness: setup has returned True with every door of a two-door page
\* registered.
C13_Witness ==
    /\ setup_result = "True"
    /\ auth_success = "True"
    /\ added
    /\ entities = 1..MaxDoors
    /\ \A t \in Tasks : pc[t] = "idle"
    /\ \A d \in entities : _state[d] = "None"

\* C14: for the state of every door, current_cover_position is 0 when it is
\* Closed, 100 when it is Open and None otherwise (Unknown, or not read yet);
\* is_closed is None exactly when the position is None and is otherwise
\* (state = Closed).
C14_PositionAndClosed ==
    \A d \in Doors :
        LET s == _state[d]
            pos == current_cover_position(s)
        IN  /\ s = "Closed" => pos = 0
            /\ s = "Open" => pos = 100
            /\ s \notin {"Closed", "Open"} => pos = None
            /\ (is_closed(s) = "None") <=> (pos = None)
            /\ pos # None => is_closed(s) = (IF s = "Closed" THEN "True" ELSE "False")

\* C14 witness: one door is Unknown, with no position, while another is
\* Closed and reports is_closed true.
C14_Witness ==
    \E d, e \in Doors :
        /\ _state[d] = "Unknown" /\ current_cover_position(_state[d]) = None
        /\ _state[e] = "Closed" /\ is_closed(_state[e]) = "True"

\* C15: an open/close call issues client.open_door / client.close_door when
\* it starts and at no other point, so once per call whatever the command
\* returns or raises; client.wait_for_door_state is awaited exactly when the
\* command returned true, and otherwise the call goes on to its forced update.
C15_OneCommandPerCall ==
    /\ [][\A t \in Tasks, r \in CommandOutcomes :
            CommandReturn(t, r)
                => /\ (pc'[t] = "wait") <=> (r = "true")
                   /\ r # "true" => pc'[t] = "read1"]_vars
    /\ [][\A t \in Tasks :
            /\ (pc'[t] = "command" /\ pc[t] # "command") => pc[t] = "idle"
            /\ (pc'[t] = "wait" /\ pc[t] # "wait") => pc[t] = "command"
            /\ pc[t] = "command" => (pc'[t] \in {"command", "wait", "read1"}
                                     /\ log'[t][1] = "set"
                                     /\ (pc'[t] = "command" => log'[t] = log[t]))]_vars

\* C15 witness: two commands have been answered differently: one awaits
\* wait_for_door_state, the other went straight to its forced update.
C15_Witness ==
    \E t, u \in Tasks :
        /\ pc[t] = "wait" /\ kind[t] \in Commands
        /\ pc[u] = "read1" /\ kind[u] \in Commands
        /\ log[u] = <<"set", "write", "clear", "async_update">>

\* C16: an async_update whose first read returns a status that is not Unknown
\* stops there: no is_alive / authenticate, no second read, _TOKEN unchanged,
\* and the door is available.
C16_FirstReadKnown ==
    [][\A t \in Tasks, o \in DoorStatusType \ {"Unknown"}, alive \in BOOLEAN :
          (pc[t] = "read1" /\ StatusReturn(t, o, alive))
              => /\ pc'[t] = "done"
                 /\ reads'[t] = 1
                 /\ auths'[t] = 0
                 /\ _TOKEN' = _TOKEN
                 /\ _state'[door[t]] = o
                 /\ _available'[door[t]]]_vars

\* C16 witness: a poll has returned after one read and no authentication,
\* with the door Open and available.
C16_Witness ==
    \E t \in Tasks :
        /\ pc[t] = "done"
        /\ kind[t] = "update"
        /\ reads[t] = 1
        /\ auths[t] = 0
        /\ _state[door[t]] = "Open"
        /\ _available[door[t]]

\* C17: _TOKEN is written only by the setup step whose authentication
\* succeeded and by a reconnect whose authentication succeeded with a
\* non-empty token.
C17_TokenWriters ==
    [][_TOKEN' # _TOKEN
          => \/ \E res \in AuthOutcomes, n \in 0..MaxDoors :
                  /\ SetupAuthenticate(res, n)
                  /\ ~res.raised /\ res.success
                  /\ _TOKEN' = res.token
             \/ \E t \in Tasks, res \in AuthOutcomes :
                  /\ AuthReturn(t, res)
                  /\ ~res.raised /\ res.success /\ TokenLen(res.token) > 0
                  /\ _TOKEN' = res.token]_vars

\* C17 witness: nothing excludes the writers from the readers: the command in
\* flight on one door was given token T1 while the reconnect of a call on
\* another door has replaced _TOKEN with T2.
C17_Witness ==
    \E t, u \in Tasks :
        /\ pc[t] = "command"
        /\ sent[t] \in 1..MaxToken
        /\ _TOKEN \in 1..MaxToken
        /\ sent[t] # _TOKEN
        /\ door[u] # door[t]
        /\ pc[u] = "read2"
        /\ auths[u] = 1

\* C18: provided every awaited client call eventually returns or raises, every
\* open/close call that has started eventually completes, and no open/close
\* call is ever left by an exception.
C18_CommandCompletes ==
    /\ [](\A t \in Tasks : kind[t] \in Commands => pc[t] # "raised")
    /\ \A t \in Tasks : (pc[t] = "command") ~> (pc[t] = "done" /\ kind[t] \in Commands)

\* C18 witness: an open/close call has completed although its command and
\* both reads of its forced update failed.
C18_Witness ==
    \E t \in Tasks :
        /\ pc[t] = "done"
        /\ kind[t] \in Commands
        /\ reads[t] = 2
        /\ _state[door[t]] = "Unknown"
        /\ log[t] = <<"set", "write", "clear", "async_update", "updated", "write">>

====
